---- MODULE Spec2Model ----
(***************************************************************************)
(* Model of the CRM backend (src/backend/src/index.js): the users, leads   *)
(* and audit_logs tables, the authMiddleware / requireRole pipeline and    *)
(* the request handlers for the auth, users and leads routes.              *)
(*                                                                         *)
(* Every handler is one action.  A handler's db.run / db.get / db.all is   *)
(* one SQL statement, executed atomically by SQLite; its callback (audit   *)
(* and response) is part of the same action.                               *)
(***************************************************************************)
EXTENDS Integers, Sequences, FiniteSets, TLC

VARIABLES
    users,        \* users table: id -> [email, role]
    nextUserId,   \* AUTOINCREMENT counter of users
    leads,        \* leads table: id -> [score, status, assigned_to, created_at]
    nextLeadId,   \* AUTOINCREMENT counter of leads
    auditLogs,    \* audit_logs table, in insertion order
    tokens,       \* payloads of the JWTs signed so far (register / login)
    now,          \* CURRENT_TIMESTAMP of the database
    production,   \* process.env.NODE_ENV === 'production'
    req,          \* the request being answered (Idle when none is)
    resp,         \* the response to it: status and returned rows
    callLogs,     \* call_logs table: id -> row
    nextCallId,   \* AUTOINCREMENT counter of call_logs
    campaigns,    \* campaigns table: id -> [sent, opened]
    nextCampaignId, \* AUTOINCREMENT counter of campaigns
    admin,        \* React state of the admin dashboard
    tele,         \* React state of the telecaller / manager dashboard
    auditDown     \* the INSERT of audit() fails (audit_logs locked, disk full)

db   == <<users, nextUserId, leads, nextLeadId, auditLogs>>
(* the tables that the auth, users and leads routes never touch *)
other == <<callLogs, nextCallId, campaigns, nextCampaignId>>
vars == <<users, nextUserId, leads, nextLeadId, auditLogs, tokens, now,
          production, auditDown, req, resp, callLogs, nextCallId, campaigns,
          nextCampaignId, admin, tele>>

----------------------------------------------------------------------------
(* Bounds of the model *)
MaxUsers  == 2      \* user ids handed out
MaxLeads  == 2      \* lead ids handed out
MaxAudit  == 3      \* audit records (hence successful mutations) in a run
MaxClock  == 2      \* distinct CURRENT_TIMESTAMP values
MaxTokens == 2      \* JWTs signed in a run

(* SQL NULL / a JSON body key that is absent *)
NULL == 0

Roles      == {"admin", "manager", "telecaller"}
AdminEmail == "admin@crm.com"
Emails     == {AdminEmail, "t1@crm.com"}
UserIds    == 1..MaxUsers
LeadIds    == 1..MaxLeads
Statuses   == {"new", "contacted"}
Scores     == {10, 20}

(* HTTP status codes of the responses, by the name the specification uses *)
OK              == 200
InvalidArgument == 400
Unauthenticated == 401
Forbidden       == 403
NotFound        == 404
Internal        == 500

----------------------------------------------------------------------------
(* Credentials of a request: the Authorization header *)
NoUser == [id |-> NULL, email |-> "", role |-> ""]

NoHeader     == [kind |-> "none",    user |-> NoUser]
BadTokens    == {[kind |-> "invalid", user |-> NoUser],
                 [kind |-> "expired", user |-> NoUser]}
Bearer(p)    == [kind |-> "jwt", user |-> p]
Credentials  == {NoHeader} \cup BadTokens \cup {Bearer(p) : p \in tokens}

(* authMiddleware: resolves the caller or answers 401 *)
authMiddleware(cred) ==
    IF cred.kind = "none"
    THEN IF ~production
         THEN LET rows == {i \in DOMAIN users : users[i].email = AdminEmail}
              IN IF rows # {}
                 THEN LET i == CHOOSE i \in rows : TRUE
                      IN [status |-> OK,
                          user |-> [id |-> i, email |-> users[i].email,
                                    role |-> users[i].role]]
                 ELSE [status |-> Unauthenticated, user |-> NoUser]
         ELSE [status |-> Unauthenticated, user |-> NoUser]
    ELSE IF cred.kind = "jwt"
         THEN [status |-> OK, user |-> cred.user]
         ELSE [status |-> Unauthenticated, user |-> NoUser]

(* the bug of a role check that lets every authenticated caller pass *)
requireRoleAnyone(user, roles) == user.role # ""

(* requireRole(...roles): TRUE when the request passes *)
requireRole(user, roles) == user.role \in roles

(* the bug of a chain that checks the role before the credential *)
GateRoleFirst(cred, roles) ==
    LET a == authMiddleware(cred)
    IN IF ~requireRole(a.user, roles) THEN Forbidden
       ELSE a.status

(* the chain 'authMiddleware, requireRole(...)' of a guarded route: the
   status it answers with, OK when the handler runs *)
Gate(cred, roles) ==
    LET a == authMiddleware(cred)
    IN IF a.status # OK THEN a.status
       ELSE IF ~requireRole(a.user, roles) THEN Forbidden
       ELSE OK

(* the bug of an audit that inserts its record twice *)
auditTwice(log, entity, entityId, action, details, performedBy) ==
    LET r == [entity |-> entity, entity_id |-> entityId, action |-> action,
              details |-> details, performed_by |-> performedBy]
    IN Append(Append(log, r), r)

(* the bug of an audit that keeps only the latest record *)
auditKeepLatest(log, entity, entityId, action, details, performedBy) ==
    IF auditDown THEN log
    ELSE <<[entity |-> entity, entity_id |-> entityId, action |-> action,
            details |-> details, performed_by |-> performedBy]>>

(* audit(entity, entityId, action, details, performedBy).  details is the
   JSON text of a payload that no handler reads back; it is kept for the
   merge and import routes and recorded as NULL for the others.  db.run is
   given no callback and the handler goes on to answer at once: when the
   INSERT fails the table is left as it was and the error reaches no
   handler (it is emitted as an 'error' event after the response was
   written; the tables are on disk and the tokens are stateless, so a
   restarted process serves the same state) *)
audit(log, entity, entityId, action, details, performedBy) ==
    IF auditDown THEN log
    ELSE Append(log, [entity |-> entity, entity_id |-> entityId, action |-> action,
                      details |-> details, performed_by |-> performedBy])

(* (req.user && req.user.email) || 'system' *)
performer(cred) ==
    LET e == authMiddleware(cred).user.email
    IN IF e # "" THEN e ELSE "system"

(* what is recorded of a request: the route, the credential it carried, the
   caller the middleware resolved (req.user), req.params.id (keepId for a
   merge) and the mergeIds of a merge *)
Request(op, cred, id) ==
    [op |-> op, kind |-> cred.kind, user |-> authMiddleware(cred).user, id |-> id,
     mergeIds |-> <<>>]
Anonymous(op) ==
    [op |-> op, kind |-> "none", user |-> NoUser, id |-> NULL, mergeIds |-> <<>>]
Idle == Anonymous("idle")

Reply(status) == [status |-> status, rows |-> <<>>]

(* useState(...) of the admin dashboard: the fetched leads, the date filter
   ("" is NULL) and the duplicate groups handed to the merge modal
   (editItem.candidates); tz is the browser's offset from UTC, in clock
   slots; alerts holds the counts of the three messages, a message being
   shown when its count is not 0 *)
AdminInit ==
    [leads |-> <<>>, dateFrom |-> NULL, dateTo |-> NULL, candidates |-> <<>>,
     tz |-> 0, alerts |-> [todaysFollowups |-> 0, pending |-> 0, missed |-> 0]]

(* useState(...) of the telecaller / manager dashboard (the two pages hold
   the same state and the same handlers); dateNow is Date.now(), the source
   of the ids made in the browser *)
TeleInit ==
    [leads |-> <<>>, calls |-> <<>>, notifications |-> <<>>,
     activeTab |-> "dashboard", searchTerm |-> "", statusFilter |-> "",
     scoreFilter |-> "", currentPage |-> 1, dateNow |-> 1]

----------------------------------------------------------------------------
(* the server after start-up: the empty tables and the seeded admin *)
Started ==
    /\ users = (1 :> [email |-> AdminEmail, role |-> "admin"])
    /\ nextUserId = 2
    /\ leads = <<>>
    /\ nextLeadId = 1
    /\ auditLogs = <<>>
    /\ tokens = {}
    /\ now = 1
    /\ production \in BOOLEAN
    /\ req = Idle
    /\ resp = Reply(OK)
    /\ callLogs = <<>>
    /\ nextCallId = 1
    /\ campaigns = <<>>
    /\ nextCampaignId = 1

Init ==
    /\ Started
    /\ admin = AdminInit
    /\ tele = TeleInit
    /\ auditDown = FALSE

(* the database clock advances *)
Tick ==
    /\ req = Idle
    /\ now < MaxClock
    /\ now' = now + 1
    /\ UNCHANGED <<db, tokens, production, auditDown, req, resp, other, admin, tele>>

----------------------------------------------------------------------------
(* Auth routes *)

(* the UNIQUE constraint of users.email; NULL emails never collide *)
EmailTaken(email, except) ==
    email # "" /\ \E i \in DOMAIN users \ except : users[i].email = email

(* POST /api/auth/register: no middleware, the body chooses the role *)
PostAuthRegister(email, password, role, fail) ==
    LET r    == IF role # "" THEN role ELSE "telecaller"
        id   == nextUserId
        user == [id |-> id, email |-> email, role |-> r]
    IN
    /\ req' = Anonymous("POST /api/auth/register")
    /\ IF email = "" \/ password = ""
       THEN /\ resp' = Reply(InvalidArgument)
            /\ UNCHANGED <<db, tokens, now, production, auditDown, other>>
       ELSE IF fail \/ EmailTaken(email, {})
       THEN /\ resp' = Reply(InvalidArgument)
            /\ UNCHANGED <<db, tokens, now, production, auditDown, other>>
       ELSE /\ nextUserId <= MaxUsers
            /\ Len(auditLogs) < MaxAudit
            /\ Cardinality(tokens \cup {user}) <= MaxTokens
            /\ users' = (id :> [email |-> email, role |-> r]) @@ users
            /\ nextUserId' = nextUserId + 1
            /\ tokens' = tokens \cup {user}
            /\ auditLogs' = audit(auditLogs, "user", id, "create", NULL, email)
            /\ resp' = Reply(OK)
            /\ UNCHANGED <<leads, nextLeadId, now, production, auditDown, other>>

(* POST /api/auth/login *)
PostAuthLogin(email, passwordOk, fail) ==
    LET rows == {i \in DOMAIN users : users[i].email = email}
    IN
    /\ req' = Anonymous("POST /api/auth/login")
    /\ IF fail
       THEN /\ resp' = Reply(Internal)
            /\ UNCHANGED <<db, tokens, now, production, auditDown, other>>
       ELSE IF rows = {} \/ ~passwordOk
       THEN /\ resp' = Reply(Unauthenticated)
            /\ UNCHANGED <<db, tokens, now, production, auditDown, other>>
       ELSE \E i \in rows :
            LET user == [id |-> i, email |-> users[i].email, role |-> users[i].role]
            IN /\ Cardinality(tokens \cup {user}) <= MaxTokens
               /\ tokens' = tokens \cup {user}
               /\ resp' = Reply(OK)
               /\ UNCHANGED <<db, now, production, auditDown, other>>

----------------------------------------------------------------------------
(* Users routes *)
AdminOrManager == {"admin", "manager"}

(* GET /api/users: ORDER BY id DESC *)
RECURSIVE Descending(_)
Descending(ids) ==
    IF ids = {} THEN <<>>
    ELSE LET m == CHOOSE i \in ids : \A j \in ids : j <= i
         IN <<m>> \o Descending(ids \ {m})

GetUsers(cred, fail) ==
    LET g == Gate(cred, AdminOrManager)
        s == Descending(DOMAIN users)
    IN
    /\ req' = Request("GET /api/users", cred, NULL)
    /\ resp' = IF g # OK THEN Reply(g)
               ELSE IF fail THEN Reply(Internal)
               ELSE [status |-> OK,
                     rows |-> [k \in DOMAIN s |-> [id |-> s[k]] @@ users[s[k]]]]
    /\ UNCHANGED <<db, tokens, now, production, auditDown, other>>

(* POST /api/users *)
PostUsers(cred, email, password, role, fail) ==
    LET g  == Gate(cred, AdminOrManager)
        r  == IF role # "" THEN role ELSE "telecaller"
        id == nextUserId
    IN
    /\ req' = Request("POST /api/users", cred, NULL)
    /\ IF g # OK
       THEN /\ resp' = Reply(g)
            /\ UNCHANGED <<db, tokens, now, production, auditDown, other>>
       ELSE IF email = "" \/ password = "" \/ fail \/ EmailTaken(email, {})
       THEN /\ resp' = Reply(InvalidArgument)
            /\ UNCHANGED <<db, tokens, now, production, auditDown, other>>
       ELSE /\ nextUserId <= MaxUsers
            /\ Len(auditLogs) < MaxAudit
            /\ users' = (id :> [email |-> email, role |-> r]) @@ users
            /\ nextUserId' = nextUserId + 1
            /\ auditLogs' = audit(auditLogs, "user", id, "create", NULL,
                                  performer(cred))
            /\ resp' = Reply(OK)
            /\ UNCHANGED <<leads, nextLeadId, tokens, now, production, auditDown, other>>

(* PUT /api/users/:id: every column is overwritten from the body *)
PutUser(cred, id, email, role, fail) ==
    LET g == Gate(cred, AdminOrManager)
    IN
    /\ req' = Request("PUT /api/users/:id", cred, id)
    /\ IF g # OK
       THEN /\ resp' = Reply(g)
            /\ UNCHANGED <<db, tokens, now, production, auditDown, other>>
       ELSE IF fail \/ (id \in DOMAIN users /\ EmailTaken(email, {id}))
       THEN /\ resp' = Reply(InvalidArgument)
            /\ UNCHANGED <<db, tokens, now, production, auditDown, other>>
       ELSE /\ Len(auditLogs) < MaxAudit
            /\ users' = [i \in DOMAIN users |->
                           IF i = id THEN [email |-> email, role |-> role]
                           ELSE users[i]]
            /\ auditLogs' = audit(auditLogs, "user", id, "update", NULL,
                                  performer(cred))
            /\ resp' = Reply(OK)
            /\ UNCHANGED <<nextUserId, leads, nextLeadId, tokens, now, production, auditDown, other>>

(* PATCH /api/users/:id: only the keys of the body are overwritten *)
UserPatches ==
    {[role |-> r] : r \in Roles} \cup {[email |-> e] : e \in Emails} \cup {<<>>}

PatchUser(cred, id, fields, fail) ==
    LET g    == Gate(cred, AdminOrManager)
        keys == DOMAIN fields
        row(u) == [k \in DOMAIN u |-> IF k \in keys THEN fields[k] ELSE u[k]]
    IN
    /\ req' = Request("PATCH /api/users/:id", cred, id)
    /\ IF g # OK
       THEN /\ resp' = Reply(g)
            /\ UNCHANGED <<db, tokens, now, production, auditDown, other>>
       ELSE IF keys = {} \/ fail
               \/ (id \in DOMAIN users /\ "email" \in keys
                   /\ EmailTaken(fields["email"], {id}))
       THEN /\ resp' = Reply(InvalidArgument)
            /\ UNCHANGED <<db, tokens, now, production, auditDown, other>>
       ELSE /\ Len(auditLogs) < MaxAudit
            /\ users' = [i \in DOMAIN users |->
                           IF i = id THEN row(users[i]) ELSE users[i]]
            /\ auditLogs' = audit(auditLogs, "user", id, "patch", NULL,
                                  performer(cred))
            /\ resp' = Reply(OK)
            /\ UNCHANGED <<nextUserId, leads, nextLeadId, tokens, now, production, auditDown, other>>

(* DELETE /api/users/:id *)
DeleteUser(cred, id, fail) ==
    LET g == Gate(cred, AdminOrManager)
    IN
    /\ req' = Request("DELETE /api/users/:id", cred, id)
    /\ IF g # OK
       THEN /\ resp' = Reply(g)
            /\ UNCHANGED <<db, tokens, now, production, auditDown, other>>
       ELSE IF fail
       THEN /\ resp' = Reply(InvalidArgument)
            /\ UNCHANGED <<db, tokens, now, production, auditDown, other>>
       ELSE /\ Len(auditLogs) < MaxAudit
            /\ users' = [i \in DOMAIN users \ {id} |-> users[i]]
            /\ auditLogs' = audit(auditLogs, "user", id, "delete", NULL,
                                  performer(cred))
            /\ resp' = Reply(OK)
            /\ UNCHANGED <<nextUserId, leads, nextLeadId, tokens, now, production, auditDown, other>>

----------------------------------------------------------------------------
(* Leads routes.  Of the columns of leads the model keeps score, status,
   assigned_to, phone, email, type, source and notes (and created_at); name,
   next_follow_up and remarks are copied from the body exactly as phone is.
   A text column that is NULL reads as "".  phone and email are sequences
   of characters, notes is kept as its JSON text. *)

LeadColumns ==
    {"score", "status", "assigned_to", "phone", "email", "type", "source", "notes"}

Phones  == {<<"5">>}
Mails   == {<<"a">>}
Types   == {"insurance"}
Sources == {"website", "Website"}
Notes   == {"[]", "[\"n\"]"}

(* bodies of POST /api/leads and records of an import; NULL / "" is a key
   that is absent (or falsy: score 0, an empty text) *)
LeadBodies ==
    [score : {NULL} \cup Scores, status : {""} \cup Statuses,
     assigned_to : {NULL} \cup UserIds, phone : {<<>>} \cup Phones,
     email : {<<>>} \cup Mails, type : {""} \cup Types,
     source : {""} \cup Sources, notes : {""} \cup Notes]

(* the row INSERT INTO leads stores for a body: score || null,
   status || 'new', assigned_to || null, JSON.stringify(notes || []),
   created_at DEFAULT CURRENT_TIMESTAMP *)
NewLead(b) ==
    [score |-> b.score,
     status |-> IF b.status # "" THEN b.status ELSE "new",
     assigned_to |-> b.assigned_to,
     phone |-> b.phone,
     email |-> b.email,
     type |-> b.type,
     source |-> b.source,
     notes |-> IF b.notes # "" THEN b.notes ELSE "[]",
     created_at |-> now]

(* a row as the API returns it: SELECT * *)
Row(id) == [id |-> id] @@ leads[id]

(* the orders ORDER BY created_at DESC may return a set of rows in: rows of
   equal created_at come in any order *)
SortedOf(table, ids) ==
    {s \in [1..Cardinality(ids) -> ids] :
        /\ \A i, j \in DOMAIN s : i # j => s[i] # s[j]
        /\ \A i, j \in DOMAIN s :
              i < j => table[s[i]].created_at >= table[s[j]].created_at}
Sorted(ids) == SortedOf(leads, ids)

(* the rows 'SELECT * FROM leads [WHERE assigned_to=?]' selects for req.user *)
QueryOf(table, user) ==
    IF user.role = "telecaller"
    THEN {i \in DOMAIN table : table[i].assigned_to = user.id}
    ELSE DOMAIN table

(* the bug of a list without the WHERE clause *)
LeadsQueryUnscoped(user) == DOMAIN leads

LeadsQuery(user) == QueryOf(leads, user)

(* GET /api/leads *)
GetLeads(cred, fail) ==
    LET a   == authMiddleware(cred)
        ids == LeadsQuery(a.user)
    IN
    /\ req' = Request("GET /api/leads", cred, NULL)
    /\ IF a.status # OK
       THEN resp' = Reply(a.status)
       ELSE IF fail
       THEN resp' = Reply(Internal)
       ELSE \E s \in Sorted(ids) :
               resp' = [status |-> OK, rows |-> [k \in DOMAIN s |-> Row(s[k])]]
    /\ UNCHANGED <<db, tokens, now, production, auditDown, other>>

(* GET /api/leads/:id *)
GetLead(cred, id, fail) ==
    LET a == authMiddleware(cred)
    IN
    /\ req' = Request("GET /api/leads/:id", cred, id)
    /\ resp' = IF a.status # OK THEN Reply(a.status)
               ELSE IF fail THEN Reply(Internal)
               ELSE IF id \notin DOMAIN leads THEN Reply(NotFound)
               ELSE [status |-> OK, rows |-> <<Row(id)>>]
    /\ UNCHANGED <<db, tokens, now, production, auditDown, other>>

(* the bug of a lead creation that is rolled back when its audit fails *)
PostLeadsRollingBack(cred, body, fail) ==
    LET g  == Gate(cred, AdminOrManager)
        id == nextLeadId
    IN
    /\ req' = Request("POST /api/leads", cred, NULL)
    /\ IF g # OK
       THEN /\ resp' = Reply(g)
            /\ UNCHANGED <<db, tokens, now, production, auditDown, other>>
       ELSE IF fail \/ auditDown
       THEN /\ resp' = Reply(IF fail THEN InvalidArgument ELSE Internal)
            /\ UNCHANGED <<db, tokens, now, production, auditDown, other>>
       ELSE /\ nextLeadId <= MaxLeads
            /\ Len(auditLogs) < MaxAudit
            /\ leads' = (id :> NewLead(body)) @@ leads
            /\ nextLeadId' = nextLeadId + 1
            /\ auditLogs' = audit(auditLogs, "lead", id, "create", NULL,
                                  performer(cred))
            /\ resp' = Reply(OK)
            /\ UNCHANGED <<users, nextUserId, tokens, now, production, auditDown, other>>

(* POST /api/leads *)
PostLeads(cred, body, fail) ==
    LET g  == Gate(cred, AdminOrManager)
        id == nextLeadId
    IN
    /\ req' = Request("POST /api/leads", cred, NULL)
    /\ IF g # OK
       THEN /\ resp' = Reply(g)
            /\ UNCHANGED <<db, tokens, now, production, auditDown, other>>
       ELSE IF fail
       THEN /\ resp' = Reply(InvalidArgument)
            /\ UNCHANGED <<db, tokens, now, production, auditDown, other>>
       ELSE /\ nextLeadId <= MaxLeads
            /\ Len(auditLogs) < MaxAudit
            /\ leads' = (id :> NewLead(body)) @@ leads
            /\ nextLeadId' = nextLeadId + 1
            /\ auditLogs' = audit(auditLogs, "lead", id, "create", NULL,
                                  performer(cred))
            /\ resp' = Reply(OK)
            /\ UNCHANGED <<users, nextUserId, tokens, now, production, auditDown, other>>

(* GET /api/audit: authMiddleware only; ORDER BY created_at DESC, the
   records in the reverse of their insertion order *)
GetAudit(cred, fail) ==
    LET a == authMiddleware(cred)
        n == Len(auditLogs)
    IN
    /\ req' = Request("GET /api/audit", cred, NULL)
    /\ IF a.status # OK
       THEN resp' = Reply(a.status)
       ELSE IF fail
       THEN resp' = Reply(Internal)
       ELSE resp' = [status |-> OK, rows |-> [k \in 1..n |-> auditLogs[n + 1 - k]]]
    /\ UNCHANGED <<db, tokens, now, production, auditDown, other>>

(* bodies of PUT /api/leads/:id: any set of keys, "foo" standing for a key
   outside the allow-list *)
Opt(k, D) == {<<>>} \cup {(k :> v) : v \in D}
LeadPatches ==
    {a @@ b @@ c @@ d : a \in Opt("score", Scores), b \in Opt("status", Statuses),
                        c \in Opt("assigned_to", UserIds), d \in Opt("foo", {"x"})}

(* the bug of an UPDATE without its WHERE clause *)
PutLeadEveryRow(cred, id, body, fail) ==
    LET a       == authMiddleware(cred)
        fields  == {k \in DOMAIN body : k \in LeadColumns}
        set(l)  == [k \in DOMAIN l |-> IF k \in fields THEN body[k] ELSE l[k]]
    IN
    /\ req' = Request("PUT /api/leads/:id", cred, id)
    /\ IF a.status # OK
       THEN /\ resp' = Reply(a.status)
            /\ UNCHANGED <<db, tokens, now, production, auditDown, other>>
       ELSE IF fields = {} \/ fail
       THEN /\ resp' = Reply(InvalidArgument)
            /\ UNCHANGED <<db, tokens, now, production, auditDown, other>>
       ELSE /\ Len(auditLogs) < MaxAudit
            /\ leads' = [i \in DOMAIN leads |-> set(leads[i])]
            /\ auditLogs' = audit(auditLogs, "lead", id, "update", NULL,
                                  performer(cred))
            /\ resp' = Reply(OK)
            /\ UNCHANGED <<users, nextUserId, nextLeadId, tokens, now, production, auditDown, other>>

(* PUT /api/leads/:id: authMiddleware only, no requireRole *)
PutLead(cred, id, body, fail) ==
    LET a       == authMiddleware(cred)
        allowed == LeadColumns
        fields  == {k \in DOMAIN body : k \in allowed}
        set(l)  == [k \in DOMAIN l |-> IF k \in fields THEN body[k] ELSE l[k]]
    IN
    /\ req' = Request("PUT /api/leads/:id", cred, id)
    /\ IF a.status # OK
       THEN /\ resp' = Reply(a.status)
            /\ UNCHANGED <<db, tokens, now, production, auditDown, other>>
       ELSE IF fields = {} \/ fail
       THEN /\ resp' = Reply(InvalidArgument)
            /\ UNCHANGED <<db, tokens, now, production, auditDown, other>>
       ELSE /\ Len(auditLogs) < MaxAudit
            /\ leads' = [i \in DOMAIN leads |->
                           IF i = id THEN set(leads[i]) ELSE leads[i]]
            /\ auditLogs' = audit(auditLogs, "lead", id, "update", NULL,
                                  performer(cred))
            /\ resp' = Reply(OK)
            /\ UNCHANGED <<users, nextUserId, nextLeadId, tokens, now, production, auditDown, other>>

(* DELETE /api/leads/:id *)
DeleteLead(cred, id, fail) ==
    LET g == Gate(cred, AdminOrManager)
    IN
    /\ req' = Request("DELETE /api/leads/:id", cred, id)
    /\ IF g # OK
       THEN /\ resp' = Reply(g)
            /\ UNCHANGED <<db, tokens, now, production, auditDown, other>>
       ELSE IF fail
       THEN /\ resp' = Reply(InvalidArgument)
            /\ UNCHANGED <<db, tokens, now, production, auditDown, other>>
       ELSE /\ Len(auditLogs) < MaxAudit
            /\ leads' = [i \in DOMAIN leads \ {id} |-> leads[i]]
            /\ auditLogs' = audit(auditLogs, "lead", id, "delete", NULL,
                                  performer(cred))
            /\ resp' = Reply(OK)
            /\ UNCHANGED <<users, nextUserId, nextLeadId, tokens, now, production, auditDown, other>>

(* records of an import batch and the batches tried *)
MaxBatch == 2
NoFields ==
    [score |-> NULL, status |-> "", assigned_to |-> NULL, phone |-> <<>>,
     email |-> <<>>, type |-> "", source |-> "", notes |-> ""]
ImportRecords ==
    {NoFields,
     [NoFields EXCEPT !.score = 10, !.status = "contacted", !.assigned_to = 2]}
Batches == UNION {[1..n -> ImportRecords] : n \in 0..MaxBatch}

(* an element of the leads array that is null: reading l.name throws *)
JsNull == [null |-> TRUE]

(* POST /api/leads/import: one stmt.run per record, errors of a run are not
   looked at; failed is the set of records whose INSERT fails, fail an error
   of stmt.finalize, which is answered after the runs.  A null element
   throws out of the forEach: the records before it have been run, the ones
   after it are not, finalize is not reached and express answers 500 *)
PostLeadsImport(cred, isArray, incoming, failed, fail) ==
    LET g     == Gate(cred, AdminOrManager)
        nulls == {k \in DOMAIN incoming : incoming[k] = JsNull}
        ran   == {k \in DOMAIN incoming : \A n \in nulls : k < n}
        ok    == ran \ failed
        nth(k) == Cardinality({j \in ok : j < k})
        new   == [id \in {nextLeadId + nth(k) : k \in ok} |->
                    NewLead(incoming[CHOOSE k \in ok : nextLeadId + nth(k) = id])]
    IN
    /\ req' = Request("POST /api/leads/import", cred, NULL)
    /\ IF g # OK
       THEN /\ resp' = Reply(g)
            /\ UNCHANGED <<db, tokens, now, production, auditDown, other>>
       ELSE IF ~isArray
       THEN /\ resp' = Reply(InvalidArgument)
            /\ UNCHANGED <<db, tokens, now, production, auditDown, other>>
       ELSE IF fail \/ nulls # {}
       THEN /\ nextLeadId + Cardinality(ok) - 1 <= MaxLeads
            /\ leads' = new @@ leads
            /\ nextLeadId' = nextLeadId + Cardinality(ok)
            /\ resp' = Reply(Internal)
            /\ UNCHANGED <<users, nextUserId, auditLogs, tokens, now, production, auditDown, other>>
       ELSE /\ nextLeadId + Cardinality(ok) - 1 <= MaxLeads
            /\ Len(auditLogs) < MaxAudit
            /\ leads' = new @@ leads
            /\ nextLeadId' = nextLeadId + Cardinality(ok)
            /\ auditLogs' = audit(auditLogs, "lead", NULL, "import",
                                  [count |-> Len(incoming)], performer(cred))
            /\ resp' = Reply(OK)
            /\ UNCHANGED <<users, nextUserId, tokens, now, production, auditDown, other>>

(* the mergeIds arrays tried *)
MaxMergeIds == 2
MergeIdLists == UNION {[1..n -> LeadIds] : n \in 0..MaxMergeIds}
Range(s) == {s[k] : k \in DOMAIN s}

(* the bug of a merge that deletes row by row and stops after the first *)
DeleteFirst(ids) ==
    IF ids \cap DOMAIN leads = {} THEN leads
    ELSE LET d == CHOOSE i \in ids \cap DOMAIN leads :
                     \A j \in ids \cap DOMAIN leads : i <= j
         IN [i \in DOMAIN leads \ {d} |-> leads[i]]

(* DELETE FROM leads WHERE id IN (...): one statement *)
DeleteIn(ids) == [i \in DOMAIN leads \ ids |-> leads[i]]

(* POST /api/leads/merge *)
PostLeadsMerge(cred, keepId, isArray, mergeIds, fail) ==
    LET g == Gate(cred, AdminOrManager)
    IN
    /\ req' = [Request("POST /api/leads/merge", cred, keepId)
                 EXCEPT !.mergeIds = IF isArray THEN mergeIds ELSE <<>>]
    /\ IF g # OK
       THEN /\ resp' = Reply(g)
            /\ UNCHANGED <<db, tokens, now, production, auditDown, other>>
       ELSE IF keepId = NULL \/ ~isArray
       THEN /\ resp' = Reply(InvalidArgument)
            /\ UNCHANGED <<db, tokens, now, production, auditDown, other>>
       ELSE IF fail
       THEN /\ resp' = Reply(Internal)
            /\ UNCHANGED <<db, tokens, now, production, auditDown, other>>
       ELSE /\ Len(auditLogs) < MaxAudit
            /\ leads' = DeleteIn(Range(mergeIds))
            /\ auditLogs' = audit(auditLogs, "lead", keepId, "merge",
                                  [keep |-> keepId, removed |-> mergeIds],
                                  performer(cred))
            /\ resp' = Reply(OK)
            /\ UNCHANGED <<users, nextUserId, nextLeadId, tokens, now, production, auditDown, other>>

(* Calls routes.  Of the columns of call_logs the model keeps lead_id,
   user_id, outcome and recording_path (and created_at); lead_name,
   user_name, duration, notes and quality are copied from the body as
   outcome is; "" stands for a NULL text column.  The FOREIGN KEY clauses are not enforced: the connection
   never sets PRAGMA foreign_keys, so a row may name a lead or a user that
   does not exist and outlives the rows it names. *)
MaxCalls == 2

Outcomes  == {"connected"}
CallBodies ==
    [lead_id : {NULL} \cup LeadIds, user_id : {1}, outcome : Outcomes]

(* the bug of an INSERT that replaces the latest row *)
InsertCallOverLast(row) ==
    (nextCallId :> row) @@ [i \in DOMAIN callLogs \ {nextCallId - 1} |-> callLogs[i]]

(* INSERT INTO call_logs *)
InsertCall(row) == (nextCallId :> row) @@ callLogs

(* GET /api/calls: ORDER BY created_at DESC *)
GetCalls(cred, fail) ==
    LET a == authMiddleware(cred)
    IN
    /\ req' = Request("GET /api/calls", cred, NULL)
    /\ IF a.status # OK
       THEN resp' = Reply(a.status)
       ELSE IF fail
       THEN resp' = Reply(Internal)
       ELSE \E s \in SortedOf(callLogs, DOMAIN callLogs) :
               resp' = [status |-> OK,
                        rows |-> [k \in DOMAIN s |-> [id |-> s[k]] @@ callLogs[s[k]]]]
    /\ UNCHANGED <<db, tokens, now, production, auditDown, other>>

(* the bug of a call log that also marks its lead as contacted *)
PostCallsContacting(cred, body, fail) ==
    /\ req' = Request("POST /api/calls", cred, NULL)
    /\ nextCallId <= MaxCalls
    /\ Len(auditLogs) < MaxAudit
    /\ callLogs' = InsertCall([lead_id |-> body.lead_id, user_id |-> body.user_id,
                               outcome |-> body.outcome, recording_path |-> "",
                               created_at |-> now])
    /\ nextCallId' = nextCallId + 1
    /\ leads' = [i \in DOMAIN leads |->
                    IF i = body.lead_id THEN [leads[i] EXCEPT !.status = "contacted"]
                    ELSE leads[i]]
    /\ auditLogs' = audit(auditLogs, "call", nextCallId, "create", NULL,
                          performer(cred))
    /\ resp' = Reply(OK)
    /\ UNCHANGED <<users, nextUserId, nextLeadId, tokens, now, production, auditDown,
                   campaigns, nextCampaignId>>

(* POST /api/calls: authMiddleware only *)
PostCalls(cred, body, fail) ==
    LET a  == authMiddleware(cred)
        id == nextCallId
    IN
    /\ req' = Request("POST /api/calls", cred, NULL)
    /\ IF a.status # OK
       THEN /\ resp' = Reply(a.status)
            /\ UNCHANGED <<db, tokens, now, production, auditDown, other>>
       ELSE IF fail
       THEN /\ resp' = Reply(InvalidArgument)
            /\ UNCHANGED <<db, tokens, now, production, auditDown, other>>
       ELSE /\ nextCallId <= MaxCalls
            /\ Len(auditLogs) < MaxAudit
            /\ callLogs' = InsertCall([lead_id |-> body.lead_id,
                                       user_id |-> body.user_id,
                                       outcome |-> body.outcome,
                                       recording_path |-> "",
                                       created_at |-> now])
            /\ nextCallId' = nextCallId + 1
            /\ auditLogs' = audit(auditLogs, "call", id, "create", NULL,
                                  performer(cred))
            /\ resp' = Reply(OK)
            /\ UNCHANGED <<users, nextUserId, leads, nextLeadId, tokens, now,
                           production, auditDown, campaigns, nextCampaignId>>

(* POST /api/calls/recording: authMiddleware, then the upload; leadId and
   userId are stored as given, or NULL *)
PostCallsRecording(cred, hasFile, leadId, userId, fail) ==
    LET a  == authMiddleware(cred)
        id == nextCallId
    IN
    /\ req' = Request("POST /api/calls/recording", cred, NULL)
    /\ IF a.status # OK
       THEN /\ resp' = Reply(a.status)
            /\ UNCHANGED <<db, tokens, now, production, auditDown, other>>
       ELSE IF ~hasFile
       THEN /\ resp' = Reply(InvalidArgument)
            /\ UNCHANGED <<db, tokens, now, production, auditDown, other>>
       ELSE IF fail
       THEN /\ resp' = Reply(Internal)
            /\ UNCHANGED <<db, tokens, now, production, auditDown, other>>
       ELSE /\ nextCallId <= MaxCalls
            /\ Len(auditLogs) < MaxAudit
            /\ callLogs' = InsertCall([lead_id |-> leadId, user_id |-> userId,
                                       outcome |-> "",
                                       recording_path |-> "uploads/recording",
                                       created_at |-> now])
            /\ nextCallId' = nextCallId + 1
            /\ auditLogs' = audit(auditLogs, "call", id, "recording_upload", NULL,
                                  performer(cred))
            /\ resp' = Reply(OK)
            /\ UNCHANGED <<users, nextUserId, leads, nextLeadId, tokens, now,
                           production, auditDown, campaigns, nextCampaignId>>

(* Campaigns routes.  Of the columns of campaigns the model keeps the two
   counters sent and opened; name, channel and budget are copied from the
   body.  An UPDATE or DELETE whose WHERE matches no row succeeds and
   changes nothing.  The bodies of PUT carry both counters as numbers. *)
MaxCampaigns == 1
MaxSent      == 11
MaxOpened    == 2

CampaignIds     == 1..MaxCampaigns
CampaignBodies  == [sent : 0..1, opened : 0..1]
RecipientCounts == {0, 1}

(* POST /api/campaigns: sent || 0, opened || 0 *)
PostCampaigns(cred, body, fail) ==
    LET g  == Gate(cred, AdminOrManager)
        id == nextCampaignId
    IN
    /\ req' = Request("POST /api/campaigns", cred, NULL)
    /\ IF g # OK
       THEN /\ resp' = Reply(g)
            /\ UNCHANGED <<db, tokens, now, production, auditDown, other>>
       ELSE IF fail
       THEN /\ resp' = Reply(InvalidArgument)
            /\ UNCHANGED <<db, tokens, now, production, auditDown, other>>
       ELSE /\ nextCampaignId <= MaxCampaigns
            /\ Len(auditLogs) < MaxAudit
            /\ campaigns' = (id :> [sent |-> body.sent, opened |-> body.opened])
                            @@ campaigns
            /\ nextCampaignId' = nextCampaignId + 1
            /\ auditLogs' = audit(auditLogs, "campaign", id, "create", NULL,
                                  performer(cred))
            /\ resp' = Reply(OK)
            /\ UNCHANGED <<users, nextUserId, leads, nextLeadId, tokens, now,
                           production, auditDown, callLogs, nextCallId>>

(* PUT /api/campaigns/:id: every column is overwritten from the body *)
PutCampaign(cred, id, body, fail) ==
    LET g == Gate(cred, AdminOrManager)
    IN
    /\ req' = Request("PUT /api/campaigns/:id", cred, id)
    /\ IF g # OK
       THEN /\ resp' = Reply(g)
            /\ UNCHANGED <<db, tokens, now, production, auditDown, other>>
       ELSE IF fail
       THEN /\ resp' = Reply(InvalidArgument)
            /\ UNCHANGED <<db, tokens, now, production, auditDown, other>>
       ELSE /\ Len(auditLogs) < MaxAudit
            /\ campaigns' = [i \in DOMAIN campaigns |->
                                IF i = id
                                THEN [sent |-> body.sent, opened |-> body.opened]
                                ELSE campaigns[i]]
            /\ auditLogs' = audit(auditLogs, "campaign", id, "update", NULL,
                                  performer(cred))
            /\ resp' = Reply(OK)
            /\ UNCHANGED <<users, nextUserId, leads, nextLeadId, tokens, now,
                           production, auditDown, callLogs, nextCallId, nextCampaignId>>

(* DELETE /api/campaigns/:id *)
DeleteCampaign(cred, id, fail) ==
    LET g == Gate(cred, AdminOrManager)
    IN
    /\ req' = Request("DELETE /api/campaigns/:id", cred, id)
    /\ IF g # OK
       THEN /\ resp' = Reply(g)
            /\ UNCHANGED <<db, tokens, now, production, auditDown, other>>
       ELSE IF fail
       THEN /\ resp' = Reply(InvalidArgument)
            /\ UNCHANGED <<db, tokens, now, production, auditDown, other>>
       ELSE /\ Len(auditLogs) < MaxAudit
            /\ campaigns' = [i \in DOMAIN campaigns \ {id} |-> campaigns[i]]
            /\ auditLogs' = audit(auditLogs, "campaign", id, "delete", NULL,
                                  performer(cred))
            /\ resp' = Reply(OK)
            /\ UNCHANGED <<users, nextUserId, leads, nextLeadId, tokens, now,
                           production, auditDown, callLogs, nextCallId, nextCampaignId>>

(* recipients.length || 10 *)
sentCount(n) == IF n # 0 THEN n ELSE 10

(* POST /api/campaigns/:id/send: sent = sent + sentCount *)
PostCampaignSend(cred, id, recipients, fail) ==
    LET g == Gate(cred, AdminOrManager)
    IN
    /\ req' = Request("POST /api/campaigns/:id/send", cred, id)
    /\ IF g # OK
       THEN /\ resp' = Reply(g)
            /\ UNCHANGED <<db, tokens, now, production, auditDown, other>>
       ELSE IF fail
       THEN /\ resp' = Reply(InvalidArgument)
            /\ UNCHANGED <<db, tokens, now, production, auditDown, other>>
       ELSE /\ Len(auditLogs) < MaxAudit
            /\ id \in DOMAIN campaigns =>
                  campaigns[id].sent + sentCount(recipients) <= MaxSent
            /\ campaigns' = [i \in DOMAIN campaigns |->
                                IF i = id
                                THEN [campaigns[i] EXCEPT
                                         !.sent = @ + sentCount(recipients)]
                                ELSE campaigns[i]]
            /\ auditLogs' = audit(auditLogs, "campaign", id, "send", NULL,
                                  performer(cred))
            /\ resp' = Reply(OK)
            /\ UNCHANGED <<users, nextUserId, leads, nextLeadId, tokens, now,
                           production, auditDown, callLogs, nextCallId, nextCampaignId>>

(* GET /api/campaigns/:id/open, the tracking pixel: no middleware, opened =
   opened + 1, no audit *)
GetCampaignOpen(id, fail) ==
    /\ req' = [Anonymous("GET /api/campaigns/:id/open") EXCEPT !.id = id]
    /\ IF fail
       THEN /\ resp' = Reply(InvalidArgument)
            /\ UNCHANGED <<db, tokens, now, production, auditDown, other>>
       ELSE /\ id \in DOMAIN campaigns => campaigns[id].opened < MaxOpened
            /\ campaigns' = [i \in DOMAIN campaigns |->
                                IF i = id
                                THEN [campaigns[i] EXCEPT !.opened = @ + 1]
                                ELSE campaigns[i]]
            /\ resp' = Reply(OK)
            /\ UNCHANGED <<db, tokens, now, production, auditDown, callLogs, nextCallId,
                           nextCampaignId>>

(* res.json / res.status(..).json: the response is sent and the exchange ends *)
Respond ==
    /\ req # Idle
    /\ req' = Idle
    /\ resp' = Reply(OK)
    /\ UNCHANGED <<db, tokens, now, production, auditDown, other, admin, tele>>


----------------------------------------------------------------------------
(* Admin dashboard (AdminDashboard.jsx).  A text is the sequence of its
   characters; a phone or email that is null reads as the empty text
   (l.phone || "").  created_at is the stored UTC text 'YYYY-MM-DD HH:MM:SS',
   kept as the number of clock slots since the start of day 0: slot t is
   on day t \div SlotsPerDay. *)
MaxText    == 2      \* characters of a phone or an email
MaxFetched == 2      \* leads the dashboard holds
MaxDay     == 2      \* days the leads were created on: days 1..MaxDay
SlotsPerDay == 2     \* clock readings told apart within one day

Texts(c)   == UNION {[1..n -> {" ", c}] : n \in 0..MaxText}
Times      == SlotsPerDay..((MaxDay + 1) * SlotsPerDay - 1)
Dates      == 1..MaxDay
Offsets    == {-1, 0, 1}

(* rows of GET /api/leads as the dashboard holds them *)
FetchedRows(id) ==
    [id : {id}, phone : Texts("5"), email : Texts("a"), created_at : Times]
FetchedLists ==
    {<<>>} \cup {<<a>> : a \in FetchedRows(1)}
           \cup {<<a, b>> : a \in FetchedRows(1), b \in FetchedRows(2)}

(* String.prototype.trim *)
RECURSIVE trim(_)
trim(t) ==
    IF t = <<>> THEN t
    ELSE IF Head(t) = " " THEN trim(Tail(t))
    ELSE IF t[Len(t)] = " " THEN trim(SubSeq(t, 1, Len(t) - 1))
    ELSE t

(* ((l.phone || "") + "|" + (l.email || "")).trim() *)
key(l) == trim(l.phone \o <<"|">> \o l.email)

RECURSIVE Ascending(_)
Ascending(ids) ==
    IF ids = {} THEN <<>>
    ELSE LET m == CHOOSE i \in ids : \A j \in ids : i <= j
         IN <<m>> \o Ascending(ids \ {m})

(* findDuplicates(): the leads grouped by key, in the order the keys were
   first met, keeping the groups of more than one lead *)
findDuplicates(ls) ==
    LET met    == {i \in DOMAIN ls :
                      /\ key(ls[i]) # <<>>
                      /\ \A j \in 1..(i - 1) : key(ls[j]) # key(ls[i])}
        vals(k) == SelectSeq(ls, LAMBDA l : key(l) = k)
        dup    == {i \in met : Len(vals(key(ls[i]))) > 1}
        order  == Ascending(dup)
    IN [n \in DOMAIN order |->
           [key |-> key(ls[order[n]]), values |-> vals(key(ls[order[n]]))]]

(* String.prototype.toLowerCase on the texts of type, source and status *)
toLowerCase(t) ==
    IF t = "Website" THEN "website" ELSE IF t = "Pending" THEN "pending" ELSE t

(* Math.floor(Math.random() * 10) *)
Jitter == 0..9

(* computeScore(lead), rnd being the random term *)
computeScore(lead, rnd) ==
    (IF lead.email # <<>> THEN 10 ELSE 0)
    + (IF lead.phone # <<>> THEN 20 ELSE 0)
    + (IF toLowerCase(lead.source) = "website" THEN 5 ELSE 0)
    + (IF toLowerCase(lead.type) = "insurance" THEN 8 ELSE 0)
    + rnd

(* fetchAll(): setLeads(lRes.data?.data || []); a GET that fails is caught
   and reads as no rows *)
fetchAll(fetched) ==
    \E s \in SortedOf(leads', QueryOf(leads', req'.user)) :
       admin' = [admin EXCEPT !.leads =
                    IF fetched THEN [k \in DOMAIN s |-> [id |-> s[k]] @@ leads'[s[k]]]
                    ELSE <<>>]

(* createLead(data): the score is computed when data.score is falsy, the
   lead is posted and, unless the post threw, everything is fetched again *)
createLead(cred, data, rnd, fail, fetched) ==
    LET body == IF data.score = NULL
                THEN [data EXCEPT !.score = computeScore(data, rnd)]
                ELSE data
    IN /\ PostLeads(cred, body, fail)
       /\ IF resp'.status = OK THEN fetchAll(fetched) ELSE admin' = admin
       /\ UNCHANGED tele

(* the Find Duplicates button *)
FindDuplicatesClick ==
    LET d == findDuplicates(admin.leads)
    IN /\ req = Idle
       /\ admin' = IF Len(d) = 0 THEN admin ELSE [admin EXCEPT !.candidates = d]
       /\ UNCHANGED <<db, tokens, now, production, auditDown, req, resp, other, tele>>

(* new Date(l.created_at): the text has no zone and is read as local time *)
DateOfCreatedAt(t) == t - admin.tz

(* new Date(dateTo): a date-only text is read as midnight UTC *)
DateOfDay(d) == d * SlotsPerDay

(* filteredLeads, the search, status, type and agent filters being empty *)
filteredLeads ==
    LET from == IF admin.dateFrom # NULL
                THEN SelectSeq(admin.leads, LAMBDA l :
                        DateOfCreatedAt(l.created_at) >= DateOfDay(admin.dateFrom))
                ELSE admin.leads
    IN IF admin.dateTo # NULL
       THEN SelectSeq(from, LAMBDA l :
               DateOfCreatedAt(l.created_at) <= DateOfDay(admin.dateTo))
       ELSE from

(* the date input: setDateTo(e.target.value).  No input is bound to
   setDateFrom, so dateFrom stays "" *)
SetDateTo ==
    /\ req = Idle
    /\ \E d \in {NULL} \cup Dates :
          /\ d # admin.dateTo
          /\ admin' = [admin EXCEPT !.dateTo = d]
    /\ UNCHANGED <<db, tokens, now, production, auditDown, req, resp, other, tele>>

(* rows of GET /api/leads as generateAlerts reads them: next_follow_up is a
   date (YYYY-MM-DD) or NULL *)
AlertStatuses == {"new", "pending", "Pending", "follow-up"}
AlertRows     == [next_follow_up : {NULL} \cup Dates, status : AlertStatuses]
AlertLists    ==
    {<<>>} \cup {<<a>> : a \in AlertRows} \cup {<<a, b>> : a, b \in AlertRows}

(* generateAlerts(leadsArr) at the instant t of the browser's clock: today
   is the UTC date of t, new Date(l.next_follow_up) is the UTC midnight that
   starts the date *)
generateAlerts(leadsArr, t) ==
    LET today == t \div SlotsPerDay
        n(S)  == Cardinality(S)
    IN [todaysFollowups |->
            n({k \in DOMAIN leadsArr : leadsArr[k].next_follow_up = today}),
        pending |->
            n({k \in DOMAIN leadsArr :
                  toLowerCase(leadsArr[k].status) \in {"pending", "follow-up"}}),
        missed |->
            n({k \in DOMAIN leadsArr :
                  /\ leadsArr[k].next_follow_up # NULL
                  /\ DateOfDay(leadsArr[k].next_follow_up) < t})]

(* the call of generateAlerts that ends fetchAll *)
GenerateAlerts ==
    /\ req = Idle
    /\ \E t \in Times :
          admin' = [admin EXCEPT !.alerts = generateAlerts(admin.leads, t)]
    /\ UNCHANGED <<db, tokens, now, production, auditDown, req, resp, other, tele>>

----------------------------------------------------------------------------
(* Telecaller and manager dashboards (TelecallerDashboard.jsx,
   ManagerDashboard.jsx): notifications *)
MaxNoteId == 9

(* .slice(0, 8) *)
NotificationsKept == 8
slice(s, n) == SubSeq(s, 1, IF Len(s) < n THEN Len(s) ELSE n)

Note(id, message) == [id |-> id, message |-> message]

(* what a deployment that serves GET /api/notifications may answer; the
   backend of this repository has no such route and the GET helper turns its
   404, like every failure, into { data: null } *)
ServerNotes == {<<>>, <<Note(0, "server")>>}

(* a note made in the browser is put on top and the list cut to 8 *)
Notified(message) ==
    [tele EXCEPT !.notifications =
                    slice(<<Note(tele.dateNow, message)>> \o @, NotificationsKept),
                 !.dateNow = @ + 1]

(* the setInterval callback: ok is 'res && res.data', arr the notifications
   answered, rnd is Math.random() > 0.85 *)
Poll(ok, arr, rnd) ==
    LET prev    == tele.notifications
        existing == {prev[k].id : k \in DOMAIN prev}
        newOnes == SelectSeq(arr, LAMBDA n : n.id \notin existing)
    IN
    /\ req = Idle
    /\ IF ok
       THEN tele' = [tele EXCEPT !.notifications =
                                    slice(newOnes \o prev, NotificationsKept)]
       ELSE IF rnd
       THEN /\ tele.dateNow <= MaxNoteId
            /\ tele' = Notified("New lead assigned")
       ELSE tele' = tele
    /\ UNCHANGED <<db, tokens, now, production, auditDown, req, resp, other, admin>>

(* quickDial(phone): POST /api/call/outbound, a route the backend does not
   have; the POST helper swallows the 404 and the note is 'Dialing' *)
quickDial ==
    /\ req = Idle
    /\ tele.dateNow <= MaxNoteId
    /\ tele' = Notified("Dialing")
    /\ UNCHANGED <<db, tokens, now, production, auditDown, req, resp, other, admin>>

----------------------------------------------------------------------------
(* Telecaller and manager dashboards: leads and calls.  The GET, POST and
   PUT helpers end in .catch(() => ({ data: null })): a request that fails
   or is denied resolves like one that succeeds, with data null.  Of a lead
   the dashboard's row keeps id, name, status, score and lastContacted; an
   id made in the browser ('local-' + Date.now()) is the negative of the
   clock, and the undefined id of a row without one is NULL *)
MaxTeleLeads == 2
MaxTeleCalls == 1

TeleRow(r) ==
    [id |-> r.id, name |-> "", status |-> r.status, score |-> r.score,
     lastContacted |-> NULL]

(* fetchAll on mount: GET /api/leads into leads; GET /api/callsLogs, a
   route the backend does not have, gives no calls (the helper never
   rejects, so the .catch falling back to /api/calls never runs); the
   notifications fall back to notes made of the calls *)
fetchAllTele(cred, fail) ==
    /\ GetLeads(cred, fail)
    /\ tele' = [tele EXCEPT
                    !.leads = IF resp'.status = OK
                              THEN [k \in DOMAIN resp'.rows |-> TeleRow(resp'.rows[k])]
                              ELSE <<>>,
                    !.calls = <<>>,
                    !.notifications = <<>>]
    /\ UNCHANGED admin

(* updateLeadStatus(leadId, newStatus): the PUT, then setLeads whatever the
   PUT's outcome; leadId is l.id || l._id of the row clicked, and the rows
   carry no _id, so an undefined leadId matches every row *)
updateLeadStatus(cred, leadId, newStatus, fail) ==
    /\ PutLead(cred, leadId, ("status" :> newStatus), fail)
    /\ tele' = [tele EXCEPT
                    !.leads = [k \in DOMAIN @ |->
                                 IF @[k].id = leadId \/ leadId = NULL
                                 THEN [@[k] EXCEPT !.status = newStatus,
                                                   !.lastContacted = tele.dateNow]
                                 ELSE @[k]]]
    /\ UNCHANGED admin

(* handleCallSubmit: logCall(selectedLead, callForm), which posts the call
   and puts a local call on top whatever the outcome; then setLeads, whose
   test 'l._id === selectedLead._id' holds for every row, and a note *)
handleCallSubmit(cred, selectedLead, outcome, fail) ==
    /\ PostCalls(cred, [lead_id |-> selectedLead.id, user_id |-> NULL,
                        outcome |-> outcome], fail)
    /\ tele' = [Notified("Call logged") EXCEPT
                    !.calls = <<[id |-> -tele.dateNow, outcome |-> outcome]>> \o @,
                    !.leads = [k \in DOMAIN @ |->
                                 [@[k] EXCEPT !.lastContacted = tele.dateNow]]]
    /\ UNCHANGED admin

(* newLead as the form's state starts: status new, score 0 *)
newLead == [NoFields EXCEPT !.status = "new"]

(* handleAddLead: the POST, then the row put on top: res.data, the object
   { data: { id } } that has no id, name or status of its own, when the POST
   succeeded, and newLead under a local id when it did not *)
handleAddLead(cred, name, fail) ==
    LET created ==
           IF resp'.status = OK
           THEN [id |-> NULL, name |-> "", status |-> "", score |-> NULL,
                 lastContacted |-> NULL]
           ELSE [id |-> -tele.dateNow, name |-> name, status |-> "new",
                 score |-> 0, lastContacted |-> NULL]
    IN
    /\ PostLeads(cred, newLead, fail)
    /\ tele' = [Notified("Lead added") EXCEPT !.leads = <<created>> \o @]
    /\ UNCHANGED admin

----------------------------------------------------------------------------
(* Telecaller and manager dashboards: filters and pages *)
itemsPerPage == 8

Tabs          == {"dashboard", "leads", "calls", "scripts"}
SearchTerms   == {"", "x"}
StatusFilters == {"", "new", "contacted"}
ScoreFilters  == {"", "high", "medium", "low"}

(* lists of n leads of which the first k are new and the others contacted,
   with scores in the three bands and the names x and y *)
PageList(n, k) ==
    [i \in 1..n |->
        [id |-> i, name |-> IF i = 1 THEN "x" ELSE "y",
         status |-> IF i <= k THEN "new" ELSE "contacted",
         score |-> IF i % 3 = 0 THEN 90 ELSE IF i % 3 = 1 THEN 60 ELSE 40,
         lastContacted |-> NULL]]
PageLists == {PageList(n, k) : n \in {0, itemsPerPage, itemsPerPage + 1}, k \in 0..2}

(* filteredLeads; the search text is looked for in name, email and phone,
   which for the one-letter names tried is equality with the name *)
filteredLeadsTele ==
    LET q        == tele.searchTerm
        found(l) == q = "" \/ l.name = q
        is(l)    == tele.statusFilter = ""
                       \/ toLowerCase(l.status) = toLowerCase(tele.statusFilter)
        band(l)  == CASE tele.scoreFilter = "high"   -> l.score >= 80
                      [] tele.scoreFilter = "medium" -> l.score >= 50 /\ l.score < 80
                      [] tele.scoreFilter = "low"    -> l.score < 50
                      [] OTHER -> TRUE
    IN SelectSeq(tele.leads, LAMBDA l : found(l) /\ is(l) /\ band(l))

(* Math.max(1, Math.ceil(len / itemsPerPage)) *)
totalPages(dataArr) ==
    IF Len(dataArr) = 0 THEN 1 ELSE (Len(dataArr) + itemsPerPage - 1) \div itemsPerPage

(* filteredLeads.slice(start, start + itemsPerPage) *)
pagedLeads ==
    LET start == (tele.currentPage - 1) * itemsPerPage
        n     == Len(filteredLeadsTele)
        end   == IF start + itemsPerPage < n THEN start + itemsPerPage ELSE n
    IN IF start >= n THEN <<>> ELSE SubSeq(filteredLeadsTele, start + 1, end)

FrontOnly == <<db, tokens, now, production, auditDown, req, resp, other, admin>>

(* a tab of the side bar: setActiveTab(tab); setCurrentPage(1) *)
SetActiveTab ==
    /\ \E tab \in Tabs :
          /\ tab # tele.activeTab \/ tele.currentPage # 1
          /\ tele' = [tele EXCEPT !.activeTab = tab, !.currentPage = 1]
    /\ UNCHANGED FrontOnly

(* the search box and the two selects: the filter is set, the page is not *)
SetSearchTerm ==
    /\ \E q \in SearchTerms \ {tele.searchTerm} :
          tele' = [tele EXCEPT !.searchTerm = q]
    /\ UNCHANGED FrontOnly
SetStatusFilter ==
    /\ \E v \in StatusFilters \ {tele.statusFilter} :
          tele' = [tele EXCEPT !.statusFilter = v]
    /\ UNCHANGED FrontOnly
SetScoreFilter ==
    /\ \E v \in ScoreFilters \ {tele.scoreFilter} :
          tele' = [tele EXCEPT !.scoreFilter = v]
    /\ UNCHANGED FrontOnly

(* the Previous and Next buttons, each disabled on its last page *)
PreviousPage ==
    /\ tele.currentPage # 1
    /\ tele' = [tele EXCEPT !.currentPage = IF @ - 1 > 1 THEN @ - 1 ELSE 1]
    /\ UNCHANGED FrontOnly
NextPage ==
    LET last == totalPages(filteredLeadsTele)
    IN /\ tele.currentPage # last
       /\ tele' = [tele EXCEPT !.currentPage = IF @ + 1 < last THEN @ + 1 ELSE last]
       /\ UNCHANGED FrontOnly

----------------------------------------------------------------------------
(* The requests tried.  A request is taken up when none is being answered:
   node runs a handler and its database callback one request at a time.
   A request sent to the API directly leaves the dashboard as it is.
   Specifications differ in the routes they exercise. *)
NewEmail     == "t1@crm.com"
SmallPatches == {b \in LeadPatches : Cardinality(DOMAIN b \ {"foo"}) <= 1}
NewBodies    ==
    {[NoFields EXCEPT !.score = s, !.assigned_to = a] :
        s \in {NULL} \cup Scores, a \in {NULL} \cup UserIds}

Register ==
    /\ req = Idle
    /\ UNCHANGED <<admin, tele>>
    /\ \E email \in {NewEmail, ""}, password \in {"pw", ""}, role \in {"", "manager"} :
          PostAuthRegister(email, password, role, FALSE)
Login ==
    /\ req = Idle
    /\ UNCHANGED <<admin, tele>>
    /\ \E email \in Emails, passwordOk \in BOOLEAN, fail \in BOOLEAN :
          PostAuthLogin(email, passwordOk, fail)
ListLeads ==
    /\ req = Idle
    /\ UNCHANGED <<admin, tele>>
    /\ \E cred \in Credentials, fail \in BOOLEAN : GetLeads(cred, fail)
ReadLead ==
    /\ req = Idle
    /\ UNCHANGED <<admin, tele>>
    /\ \E cred \in Credentials, id \in LeadIds, fail \in BOOLEAN : GetLead(cred, id, fail)
CreateLead ==
    /\ req = Idle
    /\ UNCHANGED <<admin, tele>>
    /\ \E cred \in Credentials, body \in NewBodies, fail \in BOOLEAN :
          PostLeads(cred, body, fail)
UpdateLead ==
    /\ req = Idle
    /\ UNCHANGED <<admin, tele>>
    /\ \E cred \in Credentials, id \in LeadIds, body \in SmallPatches, fail \in BOOLEAN :
          PutLead(cred, id, body, fail)

(* lead scoping: accounts, leads, assignment, reads *)
Next ==
    \/ Tick
    \/ Register
    \/ Login
    \/ ListLeads
    \/ ReadLead
    \/ CreateLead
    \/ UpdateLead
    \/ Respond

Spec == Init /\ [][Next]_vars

(* role gating: the stores are built by register, login, create and update;
   the other guarded routes are tried by the callers the chain must refuse *)
Refused == {c \in Credentials : authMiddleware(c).user.role \notin AdminOrManager}

ListUsers ==
    /\ req = Idle
    /\ UNCHANGED <<admin, tele>>
    /\ \E cred \in Credentials, fail \in BOOLEAN : GetUsers(cred, fail)
CreateUser ==
    /\ req = Idle
    /\ UNCHANGED <<admin, tele>>
    /\ \E cred \in Refused : PostUsers(cred, NewEmail, "pw", "", FALSE)
ReplaceUser ==
    /\ req = Idle
    /\ UNCHANGED <<admin, tele>>
    /\ \E cred \in Refused, id \in UserIds : PutUser(cred, id, NewEmail, "manager", FALSE)
AmendUser ==
    /\ req = Idle
    /\ UNCHANGED <<admin, tele>>
    /\ \E cred \in Refused, id \in UserIds :
          PatchUser(cred, id, [role |-> "manager"], FALSE)
RemoveUser ==
    /\ req = Idle
    /\ UNCHANGED <<admin, tele>>
    /\ \E cred \in Refused, id \in UserIds : DeleteUser(cred, id, FALSE)
RemoveLead ==
    /\ req = Idle
    /\ UNCHANGED <<admin, tele>>
    /\ \E cred \in Refused, id \in LeadIds : DeleteLead(cred, id, FALSE)
RefusedImport ==
    /\ req = Idle
    /\ UNCHANGED <<admin, tele>>
    /\ \E cred \in Refused, incoming \in Batches :
          PostLeadsImport(cred, TRUE, incoming, {}, FALSE)
RefusedMerge ==
    /\ req = Idle
    /\ UNCHANGED <<admin, tele>>
    /\ \E cred \in Refused, keepId \in LeadIds, mergeIds \in MergeIdLists :
          PostLeadsMerge(cred, keepId, TRUE, mergeIds, FALSE)

NextRoles ==
    \/ Register
    \/ Login
    \/ ListUsers
    \/ CreateUser
    \/ ReplaceUser
    \/ AmendUser
    \/ RemoveUser
    \/ ListLeads
    \/ ReadLead
    \/ CreateLead
    \/ UpdateLead
    \/ RemoveLead
    \/ RefusedImport
    \/ RefusedMerge
    \/ Respond

SpecRoles == Init /\ [][NextRoles]_vars

(* merging: leads are imported and merged *)
ImportLeads ==
    /\ req = Idle
    /\ UNCHANGED <<admin, tele>>
    /\ \E cred \in Credentials, isArray \in BOOLEAN, incoming \in Batches :
          \E failed \in SUBSET DOMAIN incoming :
             PostLeadsImport(cred, isArray, incoming, failed, FALSE)
MergeLeads ==
    /\ req = Idle
    /\ UNCHANGED <<admin, tele>>
    /\ \E cred \in Credentials, keepId \in {NULL} \cup LeadIds, isArray \in BOOLEAN,
          mergeIds \in MergeIdLists, fail \in BOOLEAN :
          PostLeadsMerge(cred, keepId, isArray, mergeIds, fail)

NextMerge ==
    \/ ImportLeads
    \/ MergeLeads
    \/ Respond

SpecMerge == Init /\ [][NextMerge]_vars

(* scoring: leads are created without a score, through the dashboard's
   createLead and through the API directly *)
JitterTried == {0, 9}
ScorelessBodies ==
    {[NoFields EXCEPT !.phone = ph, !.type = ty, !.source = so] :
        ph \in {<<>>} \cup Phones, ty \in {""} \cup Types, so \in {"", "Website"}}

AdminCreateLead ==
    /\ req = Idle
    /\ \E cred \in Credentials, data \in ScorelessBodies, rnd \in JitterTried,
          fail \in BOOLEAN, fetched \in BOOLEAN :
          createLead(cred, data, rnd, fail, fetched)
PostScoreless ==
    /\ req = Idle
    /\ UNCHANGED <<admin, tele>>
    /\ \E cred \in Credentials, body \in ScorelessBodies, fail \in BOOLEAN :
          PostLeads(cred, body, fail)

NextScore ==
    \/ Login
    \/ AdminCreateLead
    \/ PostScoreless
    \/ Respond

SpecScore == Init /\ [][NextScore]_vars

(* call logs: calls are logged against leads and users that are then
   deleted or merged away *)
LogCall ==
    /\ req = Idle
    /\ UNCHANGED <<admin, tele>>
    /\ \E cred \in Credentials, body \in CallBodies, fail \in BOOLEAN :
          PostCalls(cred, body, fail)
UploadRecording ==
    /\ req = Idle
    /\ UNCHANGED <<admin, tele>>
    /\ \E cred \in Credentials, hasFile \in BOOLEAN, leadId \in {NULL} \cup LeadIds,
          fail \in BOOLEAN :
          PostCallsRecording(cred, hasFile, leadId, NULL, fail)
ListCalls ==
    /\ req = Idle
    /\ UNCHANGED <<admin, tele>>
    /\ \E cred \in Credentials, fail \in BOOLEAN : GetCalls(cred, fail)
PlainLead ==
    /\ req = Idle
    /\ UNCHANGED <<admin, tele>>
    /\ \E cred \in Credentials : PostLeads(cred, NoFields, FALSE)
EraseLead ==
    /\ req = Idle
    /\ UNCHANGED <<admin, tele>>
    /\ \E cred \in Credentials, id \in LeadIds, fail \in BOOLEAN :
          DeleteLead(cred, id, fail)
EraseUser ==
    /\ req = Idle
    /\ UNCHANGED <<admin, tele>>
    /\ \E cred \in Credentials, id \in UserIds, fail \in BOOLEAN :
          DeleteUser(cred, id, fail)
MergePair ==
    /\ req = Idle
    /\ UNCHANGED <<admin, tele>>
    /\ \E cred \in Credentials, keepId \in LeadIds, mergeIds \in MergeIdLists :
          PostLeadsMerge(cred, keepId, TRUE, mergeIds, FALSE)

NextCalls ==
    \/ Register
    \/ PlainLead
    \/ LogCall
    \/ UploadRecording
    \/ ListCalls
    \/ EraseLead
    \/ EraseUser
    \/ MergePair
    \/ Respond

SpecCalls == Init /\ [][NextCalls]_vars

(* campaigns: created, overwritten, sent, opened and deleted *)
CreateCampaign ==
    /\ req = Idle
    /\ UNCHANGED <<admin, tele>>
    /\ \E cred \in Credentials, body \in CampaignBodies, fail \in BOOLEAN :
          PostCampaigns(cred, body, fail)
ReplaceCampaign ==
    /\ req = Idle
    /\ UNCHANGED <<admin, tele>>
    /\ \E cred \in Credentials, id \in CampaignIds, body \in CampaignBodies,
          fail \in BOOLEAN :
          PutCampaign(cred, id, body, fail)
RemoveCampaign ==
    /\ req = Idle
    /\ UNCHANGED <<admin, tele>>
    /\ \E cred \in Credentials, id \in CampaignIds, fail \in BOOLEAN :
          DeleteCampaign(cred, id, fail)
SendCampaign ==
    /\ req = Idle
    /\ UNCHANGED <<admin, tele>>
    /\ \E cred \in Credentials, id \in CampaignIds, recipients \in RecipientCounts,
          fail \in BOOLEAN :
          PostCampaignSend(cred, id, recipients, fail)
OpenCampaign ==
    /\ req = Idle
    /\ UNCHANGED <<admin, tele>>
    /\ \E id \in CampaignIds, fail \in BOOLEAN : GetCampaignOpen(id, fail)

NextCampaigns ==
    \/ Register
    \/ PlainLead
    \/ LogCall
    \/ CreateCampaign
    \/ ReplaceCampaign
    \/ RemoveCampaign
    \/ SendCampaign
    \/ OpenCampaign
    \/ Respond

SpecCampaigns == Init /\ [][NextCampaigns]_vars

(* the audit log: written by every kind of route, read, and failing *)
ReadAudit ==
    /\ req = Idle
    /\ UNCHANGED <<admin, tele>>
    /\ \E cred \in Credentials, fail \in BOOLEAN : GetAudit(cred, fail)
AuditFault ==
    /\ req = Idle
    /\ auditDown' = ~auditDown
    /\ UNCHANGED <<db, tokens, now, production, req, resp, other, admin, tele>>

NextAudit ==
    \/ PlainLead
    \/ EraseLead
    \/ LogCall
    \/ ReadAudit
    \/ AuditFault
    \/ Respond

SpecAudit == Init /\ [][NextAudit]_vars

(* accounts: registered, created, overwritten and patched by callers the
   gate lets through, with emails that are new and emails that are taken *)
AddUser ==
    /\ req = Idle
    /\ UNCHANGED <<admin, tele>>
    /\ \E cred \in Credentials, email \in Emails, fail \in BOOLEAN :
          PostUsers(cred, email, "pw", "", fail)
OverwriteUser ==
    /\ req = Idle
    /\ UNCHANGED <<admin, tele>>
    /\ \E cred \in Credentials, id \in UserIds, email \in Emails :
          PutUser(cred, id, email, "manager", FALSE)
AlterUser ==
    /\ req = Idle
    /\ UNCHANGED <<admin, tele>>
    /\ \E cred \in Credentials, id \in UserIds, fields \in UserPatches :
          PatchUser(cred, id, fields, FALSE)

NextUsers ==
    \/ Register
    \/ AddUser
    \/ OverwriteUser
    \/ AlterUser
    \/ Respond

SpecUsers == Init /\ [][NextUsers]_vars

(* import: batches with null elements, INSERTs that fail *)
BatchesAny == UNION {[1..n -> ImportRecords \cup {JsNull}] : n \in 0..MaxBatch}

ImportAny ==
    /\ req = Idle
    /\ UNCHANGED <<admin, tele>>
    /\ \E cred \in Credentials, isArray \in BOOLEAN, incoming \in BatchesAny :
          \E failed \in SUBSET DOMAIN incoming, fail \in BOOLEAN :
             PostLeadsImport(cred, isArray, incoming, failed, fail)

NextImport ==
    \/ Login
    \/ ImportAny
    \/ Respond

SpecImport == Init /\ [][NextImport]_vars

(* the admin dashboard over a fetched list of leads: the list is any list
   GET /api/leads can return, the phone, email and created_at of a lead
   being whatever was stored *)
InitDash ==
    /\ Started
    /\ \E ls \in FetchedLists, tz \in Offsets :
          admin = [AdminInit EXCEPT !.leads = ls, !.tz = tz]
    /\ tele = TeleInit
    /\ auditDown = FALSE

NextDash ==
    \/ FindDuplicatesClick
    \/ SetDateTo

SpecDash == InitDash /\ [][NextDash]_vars

(* the notifications of the telecaller dashboard: made by the user's actions
   and by the poll, which succeeds or fails *)
PollTick ==
    /\ req = Idle
    /\ \E ok \in BOOLEAN, arr \in ServerNotes, rnd \in BOOLEAN :
          /\ ok \/ arr = <<>>
          /\ Poll(ok, arr, rnd)

NextPoll ==
    \/ quickDial
    \/ PollTick

SpecPoll == Init /\ [][NextPoll]_vars

(* a party that holds no credential and knows no password, against the
   server in production mode: it registers, fails to log in and sends
   requests with what it obtained *)
InitProduction == Init /\ production

LoginDenied ==
    /\ req = Idle
    /\ UNCHANGED <<admin, tele>>
    /\ \E email \in Emails, fail \in BOOLEAN : PostAuthLogin(email, FALSE, fail)

NextOutsider ==
    \/ Register
    \/ LoginDenied
    \/ PlainLead
    \/ EraseLead
    \/ AddUser
    \/ EraseUser
    \/ Respond

SpecOutsider == InitProduction /\ [][NextOutsider]_vars

(* updates of leads that exist and of leads that do not *)
NextUpdate ==
    \/ CreateLead
    \/ UpdateLead
    \/ Respond

SpecUpdate == Init /\ [][NextUpdate]_vars

(* the telecaller dashboard against the backend: leads are created through
   the API, fetched, and then acted on from the dashboard with whatever
   credential it holds *)
TeleMount ==
    /\ req = Idle
    /\ \E cred \in Credentials, fail \in BOOLEAN : fetchAllTele(cred, fail)
TeleUpdateStatus ==
    /\ req = Idle
    /\ \E cred \in Credentials, k \in DOMAIN tele.leads, newStatus \in {"contacted"},
          fail \in BOOLEAN :
          updateLeadStatus(cred, tele.leads[k].id, newStatus, fail)
TeleCallSubmit ==
    /\ req = Idle
    /\ Len(tele.calls) < MaxTeleCalls
    /\ tele.dateNow <= MaxNoteId
    /\ \E cred \in Credentials, k \in DOMAIN tele.leads, fail \in BOOLEAN :
          handleCallSubmit(cred, tele.leads[k], "connected", fail)
TeleAddLead ==
    /\ req = Idle
    /\ Len(tele.leads) < MaxTeleLeads
    /\ tele.dateNow <= MaxNoteId
    /\ \E cred \in Credentials, fail \in BOOLEAN : handleAddLead(cred, "x", fail)

NextTele ==
    \/ PlainLead
    \/ TeleMount
    \/ TeleUpdateStatus
    \/ TeleCallSubmit
    \/ TeleAddLead
    \/ Respond

SpecTele == Init /\ [][NextTele]_vars

(* the leads tab over a fetched list of leads *)
InitPages ==
    /\ Started
    /\ admin = AdminInit
    /\ auditDown = FALSE
    /\ \E ls \in PageLists : tele = [TeleInit EXCEPT !.leads = ls]

NextPages ==
    \/ SetActiveTab
    \/ SetSearchTerm
    \/ SetStatusFilter
    \/ SetScoreFilter
    \/ PreviousPage
    \/ NextPage

SpecPages == InitPages /\ [][NextPages]_vars

(* the alerts of the admin dashboard over a fetched list of leads *)
InitAlerts ==
    /\ Started
    /\ \E ls \in AlertLists : admin = [AdminInit EXCEPT !.leads = ls]
    /\ tele = TeleInit
    /\ auditDown = FALSE

NextAlerts == GenerateAlerts

SpecAlerts == InitAlerts /\ [][NextAlerts]_vars

----------------------------------------------------------------------------
(* Access scoping of the leads routes *)

Telecaller(r) == r.kind = "jwt" /\ r.user.role = "telecaller"

(* C1: a list request of a telecaller returns only leads whose assigned_to is
   the caller's id, never a lead of another account or an unassigned lead *)
C1_ListScoped ==
    (req.op = "GET /api/leads" /\ req.user.role = "telecaller" /\ resp.status = OK)
       => \A k \in DOMAIN resp.rows : resp.rows[k].assigned_to = req.user.id

(* a telecaller is answered its own lead while the table holds a lead that
   is unassigned or assigned to another account *)
C1_Witness ==
    /\ req.op = "GET /api/leads" /\ Telecaller(req) /\ resp.status = OK
    /\ Len(resp.rows) >= 1
    /\ \E i \in DOMAIN leads : leads[i].assigned_to # req.user.id

(* C2: a telecaller's read of one lead succeeds only when the lead is
   assigned to the caller; otherwise it is answered Forbidden, without data *)
C2_ReadScoped ==
    (req.op = "GET /api/leads/:id" /\ req.user.role = "telecaller"
        /\ req.id \in DOMAIN leads /\ leads[req.id].assigned_to # req.user.id)
       => (resp.status = Forbidden /\ resp.rows = <<>>)

(* C3: no request made with a telecaller credential changes the assigned_to
   or the score of a lead *)
C3_TelecallerKeepsAssignmentAndScore ==
    [][(req = Idle /\ Telecaller(req'))
         => \A i \in DOMAIN leads \cap DOMAIN leads' :
               /\ leads'[i].assigned_to = leads[i].assigned_to
               /\ leads'[i].score = leads[i].score]_vars

(* C4: an update by a telecaller of a lead not assigned to the caller is
   answered Forbidden and leaves the lead unchanged *)
C4_UpdateOwnLeadsOnly ==
    [][(req = Idle /\ req'.op = "PUT /api/leads/:id" /\ Telecaller(req')
          /\ req'.id \in DOMAIN leads /\ leads[req'.id].assigned_to # req'.user.id)
         => (resp'.status = Forbidden /\ leads' = leads)]_vars

----------------------------------------------------------------------------
(* Role gating and credential validation *)

GuardedWrites ==
    {"POST /api/leads", "DELETE /api/leads/:id", "POST /api/leads/import",
     "POST /api/leads/merge", "POST /api/users", "PUT /api/users/:id",
     "PATCH /api/users/:id", "DELETE /api/users/:id"}

AuthenticatedRoutes ==
    GuardedWrites \cup {"GET /api/users", "GET /api/leads", "GET /api/leads/:id",
                        "PUT /api/leads/:id"}

(* C5: a telecaller's request to create, delete, import or merge leads or to
   create, update, patch or delete an account is answered Forbidden and
   leaves the leads, the accounts and the audit log unchanged *)
C5_TelecallerWritesForbidden ==
    [][(req = Idle /\ req'.op \in GuardedWrites /\ req'.user.role = "telecaller")
         => (resp'.status = Forbidden /\ leads' = leads /\ users' = users
             /\ auditLogs' = auditLogs)]_vars

(* a telecaller asked to merge leads that exist and was refused *)
C5_Witness ==
    /\ req.op = "POST /api/leads/merge" /\ Telecaller(req)
    /\ resp.status = Forbidden
    /\ req.id \in DOMAIN leads

(* C6: on every authenticated route a request with an invalid or expired
   token, or in production mode with no Authorization header, is answered
   Unauthenticated, never Forbidden, and mutates nothing *)
C6_CredentialBeforeRole ==
    [][(req = Idle /\ req'.op \in AuthenticatedRoutes
          /\ (req'.kind \in {"invalid", "expired"}
              \/ (production /\ req'.kind = "none")))
         => (resp'.status = Unauthenticated /\ UNCHANGED db)]_vars

(* an expired token on a route restricted to admin and manager, against a
   lead that exists *)
C6_Witness ==
    /\ req.op = "DELETE /api/leads/:id" /\ req.kind = "expired"
    /\ resp.status = Unauthenticated
    /\ req.id \in DOMAIN leads

----------------------------------------------------------------------------
(* Merge *)

Merge(r) == r.op = "POST /api/leads/merge"

(* C7: after a successful merge(keepId, mergeIds) no lead of mergeIds
   exists, the lead keepId exists unchanged and every lead outside
   mergeIds is unchanged *)
C7_MergeKeepsKeepId ==
    [][(req = Idle /\ Merge(req') /\ resp'.status = OK /\ req'.id \in DOMAIN leads)
         => /\ DOMAIN leads' \cap Range(req'.mergeIds) = {}
            /\ req'.id \in DOMAIN leads' /\ leads'[req'.id] = leads[req'.id]
            /\ \A i \in DOMAIN leads \ Range(req'.mergeIds) :
                  i \in DOMAIN leads' /\ leads'[i] = leads[i]]_vars

(* C8: merge(keepId, mergeIds) fails with InvalidArgument when keepId is in
   mergeIds or mergeIds is empty, leaving the leads and the audit log
   unchanged (the caller being admin or manager and the storage working) *)
C8_MergeRejectsOverlapAndEmpty ==
    [][(/\ req = Idle /\ Merge(req') /\ req'.user.role \in AdminOrManager
        /\ req'.id # NULL /\ resp'.status # Internal
        /\ (req'.id \in Range(req'.mergeIds) \/ req'.mergeIds = <<>>))
         => (resp'.status = InvalidArgument /\ leads' = leads
             /\ auditLogs' = auditLogs)]_vars

(* C9: a merge is all or nothing: a successful merge leaves none of the
   leads of mergeIds, a failed merge leaves the leads as they were *)
C9_MergeAtomic ==
    [][(req = Idle /\ Merge(req'))
         => IF resp'.status = OK
            THEN DOMAIN leads' \cap Range(req'.mergeIds) = {}
            ELSE leads' = leads]_vars

(* the record audit() appended last *)
LastAudit == auditLogs[Len(auditLogs)]

(* a merge of two leads that existed has removed both *)
C9_Witness ==
    /\ req.op = "POST /api/leads/merge" /\ resp.status = OK
    /\ Len(auditLogs) = 2 /\ auditLogs[1].action = "import"
    /\ Cardinality(Range(req.mergeIds)) = 2
    /\ nextLeadId = 3
    /\ leads = <<>>

(* C10: a successful merge appends exactly one audit record, of entity lead
   and action merge, naming the kept id and the removed ids; a failed merge
   appends none (the INSERT of audit() itself succeeding) *)
C10_MergeAuditedOnce ==
    [][(req = Idle /\ Merge(req'))
         => IF resp'.status = OK
            THEN /\ Len(auditLogs') = Len(auditLogs) + 1
                 /\ SubSeq(auditLogs', 1, Len(auditLogs)) = auditLogs
                 /\ auditLogs'[Len(auditLogs')].entity = "lead"
                 /\ auditLogs'[Len(auditLogs')].action = "merge"
                 /\ auditLogs'[Len(auditLogs')].details
                       = [keep |-> req'.id, removed |-> req'.mergeIds]
            ELSE auditLogs' = auditLogs]_vars

(* a merge that removed a lead and is the last record of the audit log *)
C10_Witness ==
    /\ req.op = "POST /api/leads/merge" /\ resp.status = OK
    /\ Len(auditLogs) >= 2 /\ LastAudit.action = "merge"
    /\ req.id = 1 /\ req.mergeIds = <<2>>
    /\ DOMAIN leads = {1}

----------------------------------------------------------------------------
(* Duplicate detection and the date filter of the admin dashboard *)

Members(g) == {g.values[i] : i \in DOMAIN g.values}

(* C11: findDuplicates returns a group only for a non-empty composite
   (phone, email) key shared by at least two leads, and a lead whose phone
   and email are both empty is a member of no group *)
C11_NoEmptyKeyGroup ==
    \A n \in DOMAIN admin.candidates :
       LET g == admin.candidates[n]
       IN /\ g.key # <<>>
          /\ Len(g.values) >= 2
          /\ \A l \in Members(g) : key(l) = g.key
          /\ \A l \in Members(g) : ~(l.phone = <<>> /\ l.email = <<>>)

(* C12: two leads whose phones are equal after trimming and whose emails
   are equal after trimming (and not both empty) are members of one group
   of findDuplicates *)
C12_TrimmedFieldsGroup ==
    LET d == findDuplicates(admin.leads)
    IN \A i, j \in DOMAIN admin.leads :
          (/\ i # j
           /\ trim(admin.leads[i].phone) = trim(admin.leads[j].phone)
           /\ trim(admin.leads[i].email) = trim(admin.leads[j].email)
           /\ (trim(admin.leads[i].phone) # <<>> \/ trim(admin.leads[i].email) # <<>>))
             => \E n \in DOMAIN d :
                   {admin.leads[i], admin.leads[j]} \subseteq Members(d[n])

(* the day of the stored created_at text *)
DayOf(t) == t \div SlotsPerDay

(* C16: with the date range [dateFrom, dateTo] the dashboard lists exactly
   the leads created on a day within the bounds, both inclusive, a lead
   created at any time of the dateTo day included, in the fetched order *)
C16_DateRangeInclusive ==
    filteredLeads =
       SelectSeq(admin.leads, LAMBDA l :
          /\ (admin.dateFrom # NULL => DayOf(l.created_at) >= admin.dateFrom)
          /\ (admin.dateTo # NULL => DayOf(l.created_at) <= admin.dateTo))

----------------------------------------------------------------------------
(* Scoring *)

(* the sum of the fixed bonuses of a lead *)
Floor(l) == computeScore(l, 0)

(* C14: a lead created without an explicit score is stored with a score s,
   Floor <= s < Floor + 10, whatever path created it *)
C14_ScoreAboveFloor ==
    \A i \in DOMAIN leads :
       /\ leads[i].score # NULL
       /\ Floor(leads[i]) <= leads[i].score
       /\ leads[i].score < Floor(leads[i]) + 10

----------------------------------------------------------------------------
(* Update, list order and import of leads *)

(* C13: an update whose body has a key outside the allow-list is answered
   InvalidArgument and changes nothing, even when the body also has
   allow-listed keys *)
C13_UnknownFieldRejected ==
    [][\A cred \in Credentials, id \in LeadIds, body \in SmallPatches :
          (/\ PutLead(cred, id, body, FALSE)
           /\ authMiddleware(cred).status = OK
           /\ "foo" \in DOMAIN body)
             => (resp'.status = InvalidArgument /\ leads' = leads
                 /\ auditLogs' = auditLogs)]_vars

(* C15: the list is newest first: of two leads of one response the one
   created later (the greater id) comes first, also when both were created
   within one stored timestamp *)
C15_NewestFirst ==
    (req.op = "GET /api/leads" /\ resp.status = OK)
       => \A i, j \in DOMAIN resp.rows :
             i < j => resp.rows[i].id > resp.rows[j].id

(* C17: every record of an import batch that is an object yields one new
   lead, with status "new" and notes [] when the record has none, whether
   or not another record of the batch fails *)
C17_ImportIndependent ==
    [][\A cred \in Credentials, incoming \in BatchesAny :
          (/\ PostLeadsImport(cred, TRUE, incoming, {}, FALSE)
           /\ Gate(cred, AdminOrManager) = OK)
             => LET good == {k \in DOMAIN incoming : incoming[k] # JsNull}
                    new  == DOMAIN leads' \ DOMAIN leads
                IN /\ Cardinality(new) = Cardinality(good)
                   /\ \A i \in new :
                         \E k \in good :
                            /\ incoming[k].status = "" => leads'[i].status = "new"
                            /\ incoming[k].notes = "" => leads'[i].notes = "[]"]_vars

----------------------------------------------------------------------------
(* Call logs *)

CallRoutes == {"POST /api/calls", "POST /api/calls/recording"}

(* C18: call log entries are append-only: an entry that exists is neither
   changed nor removed by any request, the deletion or merge of the lead it
   names and the deletion of the account it names included *)
C18_CallLogsAppendOnly ==
    [][\A i \in DOMAIN callLogs :
          i \in DOMAIN callLogs' /\ callLogs'[i] = callLogs[i]]_vars

(* a call was logged for lead 1, lead 1 was then deleted, and the call is
   still there *)
C18_Witness ==
    /\ 1 \in DOMAIN callLogs /\ callLogs[1].lead_id = 1
    /\ nextLeadId > 1 /\ 1 \notin DOMAIN leads
    /\ req.op = "DELETE /api/leads/:id" /\ resp.status = OK

(* C19: creating a call log entry, by POST /api/calls or by the recording
   upload, leaves every lead unchanged *)
C19_CallLeavesLeads ==
    [][(req = Idle /\ req'.op \in CallRoutes) => leads' = leads]_vars

(* a call was logged for a lead that exists *)
C19_Witness ==
    /\ req.op = "POST /api/calls" /\ resp.status = OK
    /\ nextCallId = 2 /\ callLogs[1].lead_id \in DOMAIN leads

----------------------------------------------------------------------------
(* Audit of mutations *)

Stores == <<users, leads, callLogs, campaigns>>

(* C20: every successful request that changes an account, a lead, a call
   log entry or a campaign appends an audit record: no request answered
   with success changes one of these stores and leaves the audit log as it
   was *)
C20_MutationsAudited ==
    [][(req = Idle /\ resp'.status = OK /\ Stores' # Stores)
          => Len(auditLogs') > Len(auditLogs)]_vars

----------------------------------------------------------------------------
(* The audit log *)

(* C21: the audit log is append-only: every step keeps every record there
   was, with the fields it had and at the place it had, so the sequence of
   records only grows *)
C21_AuditAppendOnly ==
    [][/\ Len(auditLogs') >= Len(auditLogs)
       /\ SubSeq(auditLogs', 1, Len(auditLogs)) = auditLogs]_vars

(* the log was read after it grew to two records *)
C21_Witness ==
    /\ req.op = "GET /api/audit" /\ resp.status = OK
    /\ Len(auditLogs) >= 2 /\ Len(resp.rows) = Len(auditLogs)

(* C22: a failure to append the audit record does not block, fail or roll
   back the primary operation: with the audit failing, a request that passes
   its gate and whose own statement succeeds applies its mutation and is
   answered with success, as it is when the audit works *)
C22_AuditFailureSwallowed ==
    [][\A cred \in Credentials :
          /\ (auditDown /\ Gate(cred, AdminOrManager) = OK
                /\ PostLeads(cred, NoFields, FALSE))
                => /\ resp'.status = OK
                   /\ leads' = (nextLeadId :> NewLead(NoFields)) @@ leads
          /\ \A id \in LeadIds :
                (auditDown /\ Gate(cred, AdminOrManager) = OK
                   /\ DeleteLead(cred, id, FALSE))
                   => /\ resp'.status = OK
                      /\ id \notin DOMAIN leads'
          /\ \A body \in CallBodies :
                (auditDown /\ authMiddleware(cred).status = OK
                   /\ PostCalls(cred, body, FALSE))
                   => /\ resp'.status = OK
                      /\ nextCallId \in DOMAIN callLogs']_vars

(* a lead was created while the audit was failing: the lead is stored, the
   answer is a success and the audit log is empty *)
C22_Witness ==
    /\ auditDown
    /\ req.op = "POST /api/leads" /\ resp.status = OK
    /\ 1 \in DOMAIN leads /\ auditLogs = <<>>

----------------------------------------------------------------------------
(* Referential integrity and uniqueness *)

(* C23: in every reachable state each lead whose assigned_to is set names
   an existing account *)
C23_AssignedToExists ==
    \A i \in DOMAIN leads :
       leads[i].assigned_to # NULL => leads[i].assigned_to \in DOMAIN users

NoSharedEmail ==
    \A i, j \in DOMAIN users :
       (i # j /\ users[i].email # "") => users[i].email # users[j].email

(* the statuses of the taxonomy that are not Conflict *)
NotConflict == {OK, InvalidArgument, Unauthenticated, Forbidden, NotFound, Internal}

(* C24: no two accounts ever share an email, and a registration or a user
   creation with an email that is taken fails with the Conflict error,
   changes no account and appends no audit record *)
C24_DuplicateEmailConflict ==
    /\ []NoSharedEmail
    /\ [][/\ \A email \in Emails :
                (EmailTaken(email, {}) /\ PostAuthRegister(email, "pw", "", FALSE))
                   => /\ resp'.status \notin NotConflict
                      /\ users' = users /\ auditLogs' = auditLogs
          /\ \A cred \in Credentials, email \in Emails :
                (/\ Gate(cred, AdminOrManager) = OK /\ EmailTaken(email, {})
                 /\ PostUsers(cred, email, "pw", "", FALSE))
                   => /\ resp'.status \notin NotConflict
                      /\ users' = users /\ auditLogs' = auditLogs]_vars

----------------------------------------------------------------------------
(* Alerts of the admin dashboard *)

(* C25: for every list of leads and every instant, "due today" counts the
   leads whose next_follow_up is today, "pending" the leads whose status is
   pending or follow-up, and "missed" the leads whose next_follow_up is
   before today, so that a lead due today is not counted as missed *)
C25_AlertCounts ==
    \A t \in Times :
       LET a     == generateAlerts(admin.leads, t)
           today == t \div SlotsPerDay
           ls    == admin.leads
       IN /\ a.todaysFollowups
               = Cardinality({k \in DOMAIN ls : ls[k].next_follow_up = today})
          /\ a.pending
               = Cardinality({k \in DOMAIN ls :
                                 toLowerCase(ls[k].status) \in {"pending", "follow-up"}})
          /\ a.missed
               = Cardinality({k \in DOMAIN ls :
                                 /\ ls[k].next_follow_up # NULL
                                 /\ ls[k].next_follow_up < today})

----------------------------------------------------------------------------
(* Telecaller and manager dashboards *)

(* C26: a poll that finds the store unavailable keeps the list: every
   notification held before the failed poll is held after it *)
C26_FailedPollKeepsList ==
    [][\A rnd \in BOOLEAN :
          Poll(FALSE, <<>>, rnd)
             => \A k \in DOMAIN tele.notifications :
                   \E j \in DOMAIN tele'.notifications :
                      tele'.notifications[j] = tele.notifications[k]]_vars

----------------------------------------------------------------------------
(* Privilege and the frame of an update *)

(* C27: in production mode a party that starts with no credential and knows
   no password never holds a credential of role admin or manager, and so
   never creates a lead or an account through the guarded routes *)
C27_OutsiderGainsNoRole ==
    /\ \A t \in tokens : t.role \notin AdminOrManager
    /\ leads = <<>>

(* C28: a successful update(id, body) sets on lead id the allow-listed
   fields of body to the values supplied and leaves every other field of
   that lead and every other lead unchanged; with an id that matches no lead
   it changes no lead *)
C28_UpdateFrame ==
    [][\A cred \in Credentials, id \in LeadIds, body \in SmallPatches :
          (PutLead(cred, id, body, FALSE) /\ resp'.status = OK)
             => /\ DOMAIN leads' = DOMAIN leads
                /\ \A i \in DOMAIN leads :
                      \A k \in DOMAIN leads[i] :
                         leads'[i][k] = IF i = id /\ k \in DOMAIN body \cap LeadColumns
                                        THEN body[k]
                                        ELSE leads[i][k]]_vars

(* of two leads, one was updated to status contacted and the other kept
   its status *)
C28_Witness ==
    /\ req.op = "PUT /api/leads/:id" /\ resp.status = OK
    /\ DOMAIN leads = {1, 2}
    /\ leads[req.id].status = "contacted"
    /\ \E i \in DOMAIN leads : i # req.id /\ leads[i].status = "new"

DashboardWrites == {"PUT /api/leads/:id", "POST /api/calls", "POST /api/leads"}

(* C29: the leads and calls held by the dashboard change only for
   operations the backend accepted: when the request of updateLeadStatus,
   logCall or handleAddLead fails or is denied, the two lists are what they
   were before the action *)
C29_LocalListsFollowBackend ==
    [][(req = Idle /\ req'.op \in DashboardWrites /\ resp'.status # OK)
          => (tele'.leads = tele.leads /\ tele'.calls = tele.calls)]_vars

(* C30: whatever the tab switches, filter changes and page clicks, the
   current page is a page of the filtered list, 1 <= currentPage <=
   totalPages(filteredLeads), so that the page shown is not empty when the
   filtered list is not *)
C30_PageWithinRange ==
    /\ 1 <= tele.currentPage
    /\ tele.currentPage <= totalPages(filteredLeadsTele)
    /\ filteredLeadsTele # <<>> => pagedLeads # <<>>
====
